---- MODULE Spec2Model ----
(***************************************************************************)
(* Model of youtube_summarizer.py: the extractive summarizer               *)
(* summarize_text and the batch runner batch_summarize.                    *)
(*                                                                         *)
(* A text is represented by the document spaCy makes of it: a sequence of  *)
(* sentences, each a sequence of tokens, each token the sequence of its    *)
(* characters.  Weights and scores are Python floats count/max_frequency   *)
(* and sums of them; they are kept here as exact fractions in lowest       *)
(* terms.  summary_length is kept in tenths (0.1 .. 1.0 is 1 .. 10).       *)
(***************************************************************************)
EXTENDS Integers, Sequences, FiniteSets, TLC

\* ---------------------------------------------------------------- bounds
MaxSents == 3

\* ------------------------------------------------------------ vocabulary
tv == <<"t", "v">>
Tv == <<"T", "v">>
ox == <<"o", "x">>
a_ == <<"a">>
A_ == <<"A">>
dot == <<".">>
dotslash == <<".", "/">>
sp == <<" ">>

Tokens == {tv, Tv, ox, a_, A_, dot, dotslash, sp}

\* the sentences texts are made of
Sentences ==
  { <<tv, dot>>, <<tv, tv>>, <<Tv, dot>>, <<ox, dot>>, <<tv, ox>>,
    <<a_, dot>>, <<a_, A_, dotslash>>, <<sp>> }

RECURSIVE SeqsUpTo(_, _)
SeqsUpTo(S, n) ==
  IF n = 0 THEN { <<>> }
  ELSE LET shorter == SeqsUpTo(S, n - 1)
       IN  shorter \cup { Append(t, s) : t \in { u \in shorter : Len(u) = n - 1 }, s \in S }

Texts == SeqsUpTo(Sentences, MaxSents)

\* summary_length in tenths: the presets 0.1, 0.3, 0.5, 0.7 and the custom 1.0
Fractions == {1, 3, 5, 7, 10}

\* --------------------------------------------------- library behaviour
\* spacy.lang.en.stop_words.STOP_WORDS, restricted to the vocabulary
STOP_WORDS == { a_ }

\* string.punctuation, one element per character ("grave" is the grave accent)
punctuation ==
  << "!", "\"", "#", "$", "%", "&", "'", "(", ")", "*", "+", ",", "-", ".",
     "/", ":", ";", "<", "=", ">", "?", "@", "[", "\\", "]", "^", "_", "grave",
     "{", "|", "}", "~" >>

\* str.lower() on one character of the vocabulary
LowerChar(c) ==
  CASE c = "A" -> "a"
    [] c = "T" -> "t"
    [] OTHER -> c

\* str.lower()
Lower(word) == [i \in 1..Len(word) |-> LowerChar(word[i])]

\* Python's `w in s` on strings: w is a contiguous substring of s
InStr(w, s) ==
  \E i \in 0..(Len(s) - Len(w)) : SubSeq(s, i + 1, i + Len(w)) = w

\* str.isspace() for a token; str.strip() leaves nothing iff every token is space
IsSpace(word) == \A i \in 1..Len(word) : word[i] = " "

RECURSIVE Flatten(_)
\* the tokens of the document, in document order (`for word in document`)
Flatten(doc) ==
  IF doc = <<>> THEN <<>> ELSE Head(doc) \o Flatten(Tail(doc))

\* `not text.strip()`
StripIsEmpty(text) ==
  \A i \in 1..Len(Flatten(text)) : IsSpace(Flatten(text)[i])

\* ------------------------------------------------------------ fractions
RECURSIVE GCD(_, _)
GCD(m, n) == IF n = 0 THEN m ELSE GCD(n, m % n)

\* the float n / d, as a fraction in lowest terms
Rat(n, d) == LET g == GCD(n, d) IN [num |-> n \div g, den |-> d \div g]

RatAdd(x, y) == Rat(x.num * y.den + y.num * x.den, x.den * y.den)

RatLess(x, y) == x.num * y.den < y.num * x.den

RECURSIVE MaxOf(_)
\* max() of a non-empty set of integers
MaxOf(S) ==
  LET x == CHOOSE y \in S : TRUE
  IN  IF S = {x} THEN x
      ELSE LET m == MaxOf(S \ {x}) IN IF x > m THEN x ELSE m

\* ------------------------------------------------------- summarize_text
VARIABLES
  text,               \* the argument text, as the document nlp(text)
  summary_length,     \* the argument summary_length, in tenths
  pc,                 \* position in summarize_text
  word_frequencies,   \* dict: surface form -> count, later -> weight
  sentence_score,     \* dict in insertion order: <<[sent, score], ...>>
  summary_sentences,  \* the sentences nlargest returned (indices into text)
  result,             \* the value returned
  urls,               \* batch_summarize: the URLs entered
  batch_length,       \* batch_summarize: its summary_length, in tenths
  results,            \* batch_summarize: the list of (url, summary)
  batch_i,            \* batch_summarize: the item the loop is at
  batch_pc,           \* position in batch_summarize
  last_summary_storage, \* main_cli: the dict handed to the handlers
  cli_pc,             \* position in main_cli
  cli_in,             \* what the user entered in the last menu round
  cli_out             \* the lines the last menu round printed

summarize_vars == << text, summary_length, pc, word_frequencies, sentence_score,
                     summary_sentences, result >>
batch_vars == << urls, batch_length, results, batch_i, batch_pc >>
cli_vars == << last_summary_storage, cli_pc, cli_in, cli_out >>
vars == << summarize_vars, batch_vars, cli_vars >>

\* what was entered in a menu round: the choice, and the URL and the summary
\* length where the handler asks for them
Entered(choice, url, length) == [choice |-> choice, url |-> url, length |-> length]

\* main_cli is not running
CliIdle ==
  /\ last_summary_storage = [k \in {} |-> 0]
  /\ cli_pc = "idle"
  /\ cli_in = Entered("", "", 3)
  /\ cli_out = <<>>

\* `return "Error: ..."`: a str, not a tuple
ErrorResult(msg) ==
  [tuple |-> FALSE, error |-> msg, summary |-> <<>>, sentences |-> <<>>]

\* `return summary, sentence_tokens`
TupleResult(summary, sentence_tokens) ==
  [tuple |-> TRUE, error |-> "", summary |-> summary, sentences |-> sentence_tokens]

NoResult == ErrorResult("")

EmptyDict == [w \in {} |-> 0]

\* variant: the punctuation test is left out
Counted_StopwordsOnly(word) == Lower(word) \notin STOP_WORDS

\* the filter of the counting loop: the token is counted
Counted(word) ==
  LET word_text == Lower(word)
  IN  word_text \notin STOP_WORDS /\ ~InStr(word_text, punctuation)

RECURSIVE CountLoop(_, _, _)
CountLoop(words, i, wf) ==
  IF i > Len(words) THEN wf
  ELSE LET word == words[i]
       IN  IF Counted(word)
           THEN IF word \notin DOMAIN wf
                THEN CountLoop(words, i + 1, [w \in DOMAIN wf \cup {word} |->
                                                IF w = word THEN 1 ELSE wf[w]])
                ELSE CountLoop(words, i + 1, [wf EXCEPT ![word] = @ + 1])
           ELSE CountLoop(words, i + 1, wf)

\* "Calculate word frequencies"
CountWords(document) == CountLoop(Flatten(document), 1, EmptyDict)

\* variant: min() for max()
MaxFrequency_Min(wf) ==
  CHOOSE c \in { wf[w] : w \in DOMAIN wf } : \A w \in DOMAIN wf : c <= wf[w]

\* max(word_frequencies.values())
MaxFrequency(wf) == MaxOf({ wf[w] : w \in DOMAIN wf })

\* "Normalize frequencies"
Normalize(wf) ==
  LET max_frequency == MaxFrequency(wf)
  IN  [w \in DOMAIN wf |-> Rat(wf[w], max_frequency)]

\* variant: the lookup uses the surface form, like the counting pass
LookupKey_Surface(word) == word

\* the key under which the scoring pass looks a token up
LookupKey(word) == Lower(word)

RECURSIVE WordLoop(_, _, _, _, _)
\* the inner loop: sc is the score so far, seen whether the sentence is a key
WordLoop(sentence, j, wf, seen, sc) ==
  IF j > Len(sentence) THEN [seen |-> seen, score |-> sc]
  ELSE LET key == LookupKey(sentence[j])
       IN  IF key \in DOMAIN wf
           THEN IF ~seen
                THEN WordLoop(sentence, j + 1, wf, TRUE, wf[key])
                ELSE WordLoop(sentence, j + 1, wf, TRUE, RatAdd(sc, wf[key]))
           ELSE WordLoop(sentence, j + 1, wf, seen, sc)

RECURSIVE SentenceLoop(_, _, _, _)
SentenceLoop(document, i, wf, scores) ==
  IF i > Len(document) THEN scores
  ELSE LET r == WordLoop(document[i], 1, wf, FALSE, Rat(0, 1))
       IN  IF r.seen
           THEN SentenceLoop(document, i + 1, wf,
                             Append(scores, [sent |-> i, score |-> r.score]))
           ELSE SentenceLoop(document, i + 1, wf, scores)

\* variant: every sentence enters the mapping, starting from score 0
ScoreSentences_ZeroInit(document, wf) ==
  [i \in 1..Len(document) |->
     [sent |-> i, score |-> WordLoop(document[i], 1, wf, FALSE, Rat(0, 1)).score]]

\* "Score sentences"
ScoreSentences(document, wf) == SentenceLoop(document, 1, wf, <<>>)

\* variant: the max(1, ...) is left out
SelectLength_NoMin(n, f) == (n * f) \div 10

\* variant: the fraction is taken as the share to drop
SelectLength_Complement(n, f) ==
  LET k == (n * (10 - f)) \div 10 IN IF k > 1 THEN k ELSE 1

\* max(1, int(len(sentence_tokens) * summary_length))
SelectLength(n, f) ==
  LET k == (n * f) \div 10 IN IF k > 1 THEN k ELSE 1

\* variant: the last position holding a largest score
FirstMax_Last(scores) ==
  CHOOSE i \in 1..Len(scores) :
    /\ \A j \in 1..Len(scores) : ~RatLess(scores[i].score, scores[j].score)
    /\ \A j \in (i + 1)..Len(scores) : RatLess(scores[j].score, scores[i].score)

\* the first position holding a largest score
FirstMax(scores) ==
  CHOOSE i \in 1..Len(scores) :
    /\ \A j \in 1..Len(scores) : ~RatLess(scores[i].score, scores[j].score)
    /\ \A j \in 1..(i - 1) : RatLess(scores[j].score, scores[i].score)

Remove(s, i) == SubSeq(s, 1, i - 1) \o SubSeq(s, i + 1, Len(s))

RECURSIVE NLargest(_, _)
\* heapq.nlargest(n, sentence_score, key=sentence_score.get):
\* sorted(iterable, key=key, reverse=True)[:n]; the sort is stable
NLargest(n, scores) ==
  IF n = 0 \/ scores = <<>> THEN <<>>
  ELSE LET i == FirstMax(scores)
       IN  <<scores[i].sent>> \o NLargest(n - 1, Remove(scores, i))

RECURSIVE Join(_)
\* ' '.join(final_summary)
Join(texts) ==
  IF texts = <<>> THEN <<>>
  ELSE IF Len(texts) = 1 THEN texts[1]
  ELSE texts[1] \o <<sp>> \o Join(Tail(texts))

\* [sentence.text for sentence in summary_sentences]
FinalSummary(document, sents) == [j \in 1..Len(sents) |-> document[sents[j]]]

\* summarize_text(text, nlp, summary_length), start to return
SummarizeText(t, f) ==
  IF StripIsEmpty(t) THEN ErrorResult("Error: No text to summarize")
  ELSE LET counts == CountWords(t)
       IN  IF DOMAIN counts = {}
           THEN ErrorResult("Error: No meaningful words found in text")
           ELSE LET scores == ScoreSentences(t, Normalize(counts))
                IN  IF scores = <<>>
                    THEN ErrorResult("Error: Could not score sentences")
                    ELSE TupleResult(
                           Join(FinalSummary(t, NLargest(SelectLength(Len(t), f), scores))),
                           t)

Init ==
  /\ text \in Texts
  /\ summary_length \in Fractions
  /\ pc = "start"
  /\ word_frequencies = EmptyDict
  /\ sentence_score = <<>>
  /\ summary_sentences = <<>>
  /\ result = NoResult
  /\ urls = <<>>
  /\ batch_length = 3
  /\ results = <<>>
  /\ batch_i = 1
  /\ batch_pc = "idle"
  /\ CliIdle

\* lines 51-52
ReturnEmptyInput ==
  /\ pc = "start"
  /\ StripIsEmpty(text)
  /\ result' = ErrorResult("Error: No text to summarize")
  /\ pc' = "done"
  /\ UNCHANGED << cli_vars, batch_vars, text, summary_length, word_frequencies, sentence_score,
                  summary_sentences >>

\* lines 54-64 when a word is counted
CountFrequencies ==
  /\ pc = "start"
  /\ ~StripIsEmpty(text)
  /\ DOMAIN CountWords(text) # {}
  /\ word_frequencies' = CountWords(text)
  /\ pc' = "counted"
  /\ UNCHANGED << cli_vars, batch_vars, text, summary_length, sentence_score, summary_sentences, result >>

\* lines 54-67 when no word is counted
ReturnNoMeaningfulWords ==
  /\ pc = "start"
  /\ ~StripIsEmpty(text)
  /\ DOMAIN CountWords(text) = {}
  /\ word_frequencies' = CountWords(text)
  /\ result' = ErrorResult("Error: No meaningful words found in text")
  /\ pc' = "done"
  /\ UNCHANGED << cli_vars, batch_vars, text, summary_length, sentence_score, summary_sentences >>

\* lines 70-72
NormalizeFrequencies ==
  /\ pc = "counted"
  /\ word_frequencies' = Normalize(word_frequencies)
  /\ pc' = "normalized"
  /\ UNCHANGED << cli_vars, batch_vars, text, summary_length, sentence_score, summary_sentences, result >>

\* lines 75-83 when a sentence is scored
ScoreStep ==
  /\ pc = "normalized"
  /\ ScoreSentences(text, word_frequencies) # <<>>
  /\ sentence_score' = ScoreSentences(text, word_frequencies)
  /\ pc' = "scored"
  /\ UNCHANGED << cli_vars, batch_vars, text, summary_length, word_frequencies, summary_sentences, result >>

\* lines 75-86 when no sentence is scored
ReturnCouldNotScore ==
  /\ pc = "normalized"
  /\ ScoreSentences(text, word_frequencies) = <<>>
  /\ sentence_score' = <<>>
  /\ result' = ErrorResult("Error: Could not score sentences")
  /\ pc' = "done"
  /\ UNCHANGED << cli_vars, batch_vars, text, summary_length, word_frequencies, summary_sentences >>

\* lines 89-94
SelectTop ==
  /\ pc = "scored"
  /\ LET select_length == SelectLength(Len(text), summary_length)
         selected == NLargest(select_length, sentence_score)
     IN  /\ summary_sentences' = selected
         /\ result' = TupleResult(Join(FinalSummary(text, selected)), text)
  /\ pc' = "done"
  /\ UNCHANGED << cli_vars, batch_vars, text, summary_length, word_frequencies, sentence_score >>

Next ==
  \/ ReturnEmptyInput
  \/ CountFrequencies
  \/ ReturnNoMeaningfulWords
  \/ NormalizeFrequencies
  \/ ScoreStep
  \/ ReturnCouldNotScore
  \/ SelectTop

Spec == Init /\ [][Next]_vars

\* ------------------------------------------------------ batch_summarize
MaxUrls == 3

\* Python's None for a video id or a transcript
None == "None"

\* A URL, by what each parse of extract_video_id finds in it: `pytube` is the
\* id extract.video_id returns (None: it raises), `watch` the text between
\* 'v=' and '&' when 'youtube.com/watch?v=' is in the URL, `short` the text
\* between 'youtu.be/' and '?' when that is in it.
Urls ==
  { [name |-> "https://www.youtube.com/watch?v=aaaaaaaaaaa",
     pytube |-> "aaaaaaaaaaa", watch |-> "aaaaaaaaaaa", short |-> None],
    [name |-> "https://youtu.be/bbb", pytube |-> None, watch |-> None, short |-> "bbb"],
    [name |-> "https://www.youtube.com/watch?v=ccc&t=1",
     pytube |-> None, watch |-> "ccc", short |-> None],
    [name |-> "https://youtu.be/ddd?t=1", pytube |-> None, watch |-> None, short |-> "ddd"],
    [name |-> "https://www.youtube.com/watch?v=eeeeeeeeeee",
     pytube |-> "eeeeeeeeeee", watch |-> "eeeeeeeeeee", short |-> None],
    [name |-> "https://www.youtube.com/watch?v=",
     pytube |-> None, watch |-> "", short |-> None],
    [name |-> "example.com/video", pytube |-> None, watch |-> None, short |-> None] }

\* extract_video_id(url)
ExtractVideoId(url) ==
  IF url.pytube # None THEN url.pytube
  ELSE IF url.watch # None THEN url.watch
  ELSE IF url.short # None THEN url.short
  ELSE None

\* a value of get_video_transcript: None, or a str
NoneText == [none |-> TRUE, text |-> <<>>]
Text(t) == [none |-> FALSE, text |-> t]

\* what YouTubeTranscriptApi.get_transcript gives for a video id: the joined
\* text of its elements; for the other ids it raises
TranscriptService(video_id) ==
  CASE video_id = "aaaaaaaaaaa" -> << <<tv, dot>>, <<a_, dot>>, <<tv, ox>> >>
    [] video_id = "bbb" -> << <<Tv, dot>> >>
    [] video_id = "ccc" -> << <<a_, dot>>, <<a_, A_, dotslash>> >>
    [] video_id = "ddd" -> << <<sp>> >>

ServiceRaises(video_id) == video_id \notin {"aaaaaaaaaaa", "bbb", "ccc", "ddd"}

\* get_video_transcript(video_id): the stripped text, or None
GetVideoTranscript(video_id) ==
  IF ServiceRaises(video_id) THEN NoneText ELSE Text(TranscriptService(video_id))

\* `if not video_id`
NotVideoId(video_id) == video_id = None \/ video_id = ""

\* `if not text`: None, or empty after the strip of get_video_transcript
NotText(t) == t.none \/ StripIsEmpty(t.text)

\* a str of the results list: one of the fixed messages, or a summary
Message(msg) == [error |-> msg, summary |-> <<>>]
SummaryStr(summary) == [error |-> "", summary |-> summary]

\* the str batch_summarize records for a result of summarize_text
\* (lines 330-333)
RecordedResult(r) == IF r.tuple THEN SummaryStr(r.summary) ELSE Message(r.error)

\* summary.startswith("Error:") or summary in ["Invalid URL", "No transcript available"]
ShownAsError(str) ==
  \/ str.error \in { "Error: No text to summarize",
                     "Error: No meaningful words found in text",
                     "Error: Could not score sentences" }
  \/ str.error \in { "Invalid URL", "No transcript available" }

BatchInit ==
  /\ text = <<>>
  /\ summary_length = 3
  /\ pc = "idle"
  /\ word_frequencies = EmptyDict
  /\ sentence_score = <<>>
  /\ summary_sentences = <<>>
  /\ result = NoResult
  /\ urls \in SeqsUpTo(Urls, MaxUrls)
  /\ batch_length = 3
  /\ results = <<>>
  /\ batch_i = 1
  /\ batch_pc = "entered"
  /\ CliIdle

\* lines 306-309
BatchNoUrls ==
  /\ batch_pc = "entered"
  /\ urls = <<>>
  /\ batch_pc' = "returned"
  /\ UNCHANGED << cli_vars, summarize_vars, urls, batch_length, results, batch_i >>

\* lines 311-315
BatchGetSummaryLength ==
  /\ batch_pc = "entered"
  /\ urls # <<>>
  /\ \E f \in Fractions : batch_length' = f
  /\ results' = <<>>
  /\ batch_i' = 1
  /\ batch_pc' = "loop"
  /\ UNCHANGED << cli_vars, summarize_vars, urls >>

\* variant: the loop is left at an item without a transcript
BatchNoTranscript_Break ==
  /\ batch_pc = "loop"
  /\ batch_i <= Len(urls)
  /\ ~NotVideoId(ExtractVideoId(urls[batch_i]))
  /\ NotText(GetVideoTranscript(ExtractVideoId(urls[batch_i])))
  /\ results' = Append(results, <<urls[batch_i], Message("No transcript available")>>)
  /\ batch_i' = Len(urls) + 1
  /\ UNCHANGED << cli_vars, summarize_vars, urls, batch_length, batch_pc >>

\* lines 316-322
BatchInvalidUrl ==
  /\ batch_pc = "loop"
  /\ batch_i <= Len(urls)
  /\ NotVideoId(ExtractVideoId(urls[batch_i]))
  /\ results' = Append(results, <<urls[batch_i], Message("Invalid URL")>>)
  /\ batch_i' = batch_i + 1
  /\ UNCHANGED << cli_vars, summarize_vars, urls, batch_length, batch_pc >>

\* lines 316-327
BatchNoTranscript ==
  /\ batch_pc = "loop"
  /\ batch_i <= Len(urls)
  /\ ~NotVideoId(ExtractVideoId(urls[batch_i]))
  /\ NotText(GetVideoTranscript(ExtractVideoId(urls[batch_i])))
  /\ results' = Append(results, <<urls[batch_i], Message("No transcript available")>>)
  /\ batch_i' = batch_i + 1
  /\ UNCHANGED << cli_vars, summarize_vars, urls, batch_length, batch_pc >>

\* lines 316-333
BatchSummarizeItem ==
  /\ batch_pc = "loop"
  /\ batch_i <= Len(urls)
  /\ ~NotVideoId(ExtractVideoId(urls[batch_i]))
  /\ ~NotText(GetVideoTranscript(ExtractVideoId(urls[batch_i])))
  /\ LET r == SummarizeText(GetVideoTranscript(ExtractVideoId(urls[batch_i])).text, batch_length)
     IN  results' = Append(results, <<urls[batch_i], RecordedResult(r)>>)
  /\ batch_i' = batch_i + 1
  /\ UNCHANGED << cli_vars, summarize_vars, urls, batch_length, batch_pc >>

\* lines 335-367: the results are shown and the function returns
BatchDisplay ==
  /\ batch_pc = "loop"
  /\ batch_i > Len(urls)
  /\ batch_pc' = "returned"
  /\ UNCHANGED << cli_vars, summarize_vars, urls, batch_length, results, batch_i >>

BatchNext ==
  \/ BatchNoUrls
  \/ BatchGetSummaryLength
  \/ BatchInvalidUrl
  \/ BatchNoTranscript
  \/ BatchSummarizeItem
  \/ BatchDisplay

BatchSpec == BatchInit /\ [][BatchNext]_vars

\* ------------------------------------------------------------- main_cli
MaxMenuBatch == 1

\* the URLs entered at the prompts of the menu: those above, and a second
\* URL of the first video
MenuUrls ==
  Urls \cup
  { [name |-> "https://youtu.be/aaaaaaaaaaa",
     pytube |-> "aaaaaaaaaaa", watch |-> None, short |-> "aaaaaaaaaaa"] }

\* what get_user_choice returns: '1' .. '6', or anything else
Choices == {"1", "2", "3", "4", "5", "6", "x"}

\* last_summary_storage = {}
EmptyStorage == [k \in {} |-> 0]

\* the keys of the dict
Keys(storage) == IF storage = EmptyStorage THEN {} ELSE DOMAIN storage

\* len(summary.split()); every token of the text is followed by whitespace
WordCount(summary) == Cardinality({ i \in 1..Len(summary) : ~IsSpace(summary[i]) })

\* variant: only the summary and its URL are stored
StoreLastSummary_NoCounts(storage, summary, url, sentences) ==
  [k \in Keys(storage) \cup {"summary", "url"} |->
     CASE k = "summary" -> summary
       [] k = "url" -> url
       [] OTHER -> storage[k]]

\* lines 243-246: "Store last summary"
StoreLastSummary(storage, summary, url, sentences) ==
  [k \in Keys(storage) \cup {"summary", "url", "word_count", "total_sentences"} |->
     CASE k = "summary" -> summary
       [] k = "url" -> url
       [] k = "word_count" -> WordCount(summary)
       [] k = "total_sentences" -> Len(sentences)
       [] OTHER -> storage[k]]

\* `not last_summary_storage.get('summary')`
NoStoredSummary(storage) ==
  IF "summary" \in Keys(storage) THEN storage["summary"] = <<>> ELSE TRUE

\* one entry of the results list (lines 316-333)
BatchEntry(url, f) ==
  IF NotVideoId(ExtractVideoId(url)) THEN <<url, Message("Invalid URL")>>
  ELSE IF NotText(GetVideoTranscript(ExtractVideoId(url)))
       THEN <<url, Message("No transcript available")>>
  ELSE <<url, RecordedResult(SummarizeText(GetVideoTranscript(ExtractVideoId(url)).text, f))>>

\* BatchEntry and the result of summarize_text for a URL's transcript, tabulated
BatchEntryOf == [url \in Urls, f \in Fractions |-> BatchEntry(url, f)]
SummaryOf ==
  [url \in { u \in MenuUrls : ~NotText(GetVideoTranscript(ExtractVideoId(u))) },
   f \in Fractions |-> SummarizeText(GetVideoTranscript(ExtractVideoId(url)).text, f)]

\* lines 467-477: the model is loaded and the loop is entered
CliInit ==
  /\ text = <<>>
  /\ summary_length = 3
  /\ pc = "idle"
  /\ word_frequencies = EmptyDict
  /\ sentence_score = <<>>
  /\ summary_sentences = <<>>
  /\ result = NoResult
  /\ urls = <<>>
  /\ batch_length = 3
  /\ results = <<>>
  /\ batch_i = 1
  /\ batch_pc = "idle"
  /\ last_summary_storage = EmptyStorage
  /\ cli_pc = "menu"
  /\ cli_in = Entered("", "", 3)
  /\ cli_out = <<>>

\* choice '1', lines 202-206
CliSingleNoUrl ==
  /\ cli_pc = "menu"
  /\ cli_in' = Entered("1", "", 3)
  /\ cli_out' = <<"No URL provided!">>
  /\ UNCHANGED << summarize_vars, batch_vars, last_summary_storage, cli_pc >>

\* choice '1', lines 202-213
CliSingleInvalidUrl ==
  /\ cli_pc = "menu"
  /\ \E url \in MenuUrls :
       /\ NotVideoId(ExtractVideoId(url))
       /\ cli_in' = Entered("1", url.name, 3)
  /\ cli_out' = <<"Invalid YouTube URL!">>
  /\ UNCHANGED << summarize_vars, batch_vars, last_summary_storage, cli_pc >>

\* choice '1', lines 202-226
CliSingleNoTranscript ==
  /\ cli_pc = "menu"
  /\ \E url \in MenuUrls, f \in Fractions :
       /\ ~NotVideoId(ExtractVideoId(url))
       /\ NotText(GetVideoTranscript(ExtractVideoId(url)))
       /\ cli_in' = Entered("1", url.name, f)
  /\ cli_out' = <<"No transcript found for this video!">>
  /\ UNCHANGED << summarize_vars, batch_vars, last_summary_storage, cli_pc >>

\* choice '1', lines 202-264 when summarize_text returns a tuple
CliSingleSummarized ==
  /\ cli_pc = "menu"
  /\ \E url \in MenuUrls, f \in Fractions :
       /\ ~NotVideoId(ExtractVideoId(url))
       /\ ~NotText(GetVideoTranscript(ExtractVideoId(url)))
       /\ LET r == SummaryOf[url, f]
          IN  /\ r.tuple
              /\ last_summary_storage' =
                   StoreLastSummary(last_summary_storage, r.summary, url.name, r.sentences)
       /\ cli_in' = Entered("1", url.name, f)
  /\ cli_out' = <<"SUMMARY GENERATED SUCCESSFULLY!">>
  /\ UNCHANGED << summarize_vars, batch_vars, cli_pc >>

\* choice '1', lines 202-264 when summarize_text returns an error str
CliSingleError ==
  /\ cli_pc = "menu"
  /\ \E url \in MenuUrls, f \in Fractions :
       /\ ~NotVideoId(ExtractVideoId(url))
       /\ ~NotText(GetVideoTranscript(ExtractVideoId(url)))
       /\ LET r == SummaryOf[url, f]
          IN  /\ ~r.tuple
              /\ cli_out' = <<r.error>>
       /\ cli_in' = Entered("1", url.name, f)
  /\ UNCHANGED << summarize_vars, batch_vars, last_summary_storage, cli_pc >>

\* choice '2', lines 298-309: no URL is entered
CliBatchNoUrls ==
  /\ cli_pc = "menu"
  /\ cli_in' = Entered("2", "", 3)
  /\ cli_out' = <<"No URLs provided!">>
  /\ UNCHANGED << summarize_vars, batch_vars, last_summary_storage, cli_pc >>

\* the non-empty URL lists entered at the prompts of batch_summarize
MenuBatches == SeqsUpTo(Urls, MaxMenuBatch) \ { <<>> }

\* lines 340-347: the line shown for one entry of the results list
ShownLine(entry) == IF ShownAsError(entry[2]) THEN "error" ELSE "Summary"

\* choice '2', lines 298-367: the whole of batch_summarize; its urls and
\* results are locals and are gone when it returns
CliBatch ==
  /\ cli_pc = "menu"
  /\ \E us \in MenuBatches, f \in Fractions :
       LET batch_results == [j \in 1..Len(us) |-> BatchEntryOf[us[j], f]]
       IN  /\ cli_in' = Entered("2", "", f)
           /\ cli_out' = <<"BATCH RESULTS">> \o
                           [j \in 1..Len(us) |-> ShownLine(batch_results[j])]
  /\ UNCHANGED << summarize_vars, batch_vars, last_summary_storage, cli_pc >>

\* choice '3', lines 371-374
CliViewNoSummary ==
  /\ cli_pc = "menu"
  /\ NoStoredSummary(last_summary_storage)
  /\ cli_in' = Entered("3", "", 3)
  /\ cli_out' = <<"No previous summary found!">>
  /\ UNCHANGED << summarize_vars, batch_vars, last_summary_storage, cli_pc >>

\* choice '3', lines 376-386
CliViewLastSummary ==
  /\ cli_pc = "menu"
  /\ ~NoStoredSummary(last_summary_storage)
  /\ cli_in' = Entered("3", "", 3)
  /\ cli_out' = <<"LAST SUMMARY">>
  /\ UNCHANGED << summarize_vars, batch_vars, last_summary_storage, cli_pc >>

\* choices '4' and '5': show_settings, show_help
CliSettingsOrHelp ==
  /\ cli_pc = "menu"
  /\ \E c \in {"4", "5"} :
       /\ cli_in' = Entered(c, "", 3)
       /\ cli_out' = IF c = "4" THEN <<"SETTINGS & INFO">> ELSE <<"HELP">>
  /\ UNCHANGED << summarize_vars, batch_vars, last_summary_storage, cli_pc >>

\* lines 499-501
CliInvalidChoice ==
  /\ cli_pc = "menu"
  /\ \E c \in Choices \ {"1", "2", "3", "4", "5", "6"} : cli_in' = Entered(c, "", 3)
  /\ cli_out' = <<"Invalid choice! Please select 1-6.">>
  /\ UNCHANGED << summarize_vars, batch_vars, last_summary_storage, cli_pc >>

\* choice '6', lines 496-498
CliExit ==
  /\ cli_pc = "menu"
  /\ cli_in' = Entered("6", "", 3)
  /\ cli_out' = <<"Thank you for using YouTube Video Summarizer!">>
  /\ cli_pc' = "exited"
  /\ UNCHANGED << summarize_vars, batch_vars, last_summary_storage >>

CliNext ==
  \/ CliSingleNoUrl
  \/ CliSingleInvalidUrl
  \/ CliSingleNoTranscript
  \/ CliSingleSummarized
  \/ CliSingleError
  \/ CliBatchNoUrls
  \/ CliBatch
  \/ CliViewNoSummary
  \/ CliViewLastSummary
  \/ CliSettingsOrHelp
  \/ CliInvalidChoice
  \/ CliExit

CliSpec == CliInit /\ [][CliNext]_vars

\* ================================================================ claims
\* vocabulary of the properties, stated over the document itself

Returned == pc = "done"
Succeeded == pc = "done" /\ result.tuple
Failed(msg) == pc = "done" /\ ~result.tuple /\ result.error = msg

\* the positions <<sentence, token>> of the document
TokenAt(t, p) == t[p[1]][p[2]]
Occurrences(t) == UNION { { <<i, j>> : j \in 1..Len(t[i]) } : i \in 1..Len(t) }

\* a token the spec's filter lets through: neither a stopword nor one
\* punctuation character, after lowercasing
IsPunctuationChar(w) == Len(w) = 1 /\ \E i \in 1..Len(punctuation) : punctuation[i] = w[1]
SpecSkipped(w) == Lower(w) \in STOP_WORDS \/ IsPunctuationChar(Lower(w))

\* a token the code's filter lets through
CodeSkipped(w) ==
  \/ Lower(w) \in STOP_WORDS
  \/ \E i \in 1..Len(punctuation) :
       \A c \in 1..Len(w) :
         i + c - 1 <= Len(punctuation) /\ punctuation[i + c - 1] = Lower(w)[c]

SkippedTokens == { w \in Tokens : CodeSkipped(w) }

\* the surface forms that are keys of the frequency table
KeysOf(t) == { TokenAt(t, p) : p \in Occurrences(t) } \ SkippedTokens

\* the sentences holding a token whose lowercase form is a key
Scorable(t) ==
  LET keys == KeysOf(t)
  IN  { i \in 1..Len(t) : \E j \in 1..Len(t[i]) : Lower(t[i][j]) \in keys }

ScoredSet == { sentence_score[i].sent : i \in 1..Len(sentence_score) }
SelectedSet == { summary_sentences[i] : i \in 1..Len(summary_sentences) }
ScoreOf(s) == (CHOOSE e \in { sentence_score[i] : i \in 1..Len(sentence_score) } : e.sent = s).score

\* max(1, floor(n * f / 10)) stated without division
FloorTenths(n, f) == CHOOSE k \in 0..n : 10 * k <= n * f /\ n * f < 10 * (k + 1)
ClaimedCount(n, f) == IF FloorTenths(n, f) >= 1 THEN FloorTenths(n, f) ELSE 1
Min(x, y) == IF x <= y THEN x ELSE y

\* C1 (as stated): a successful summary holds exactly max(1, floor(n * f))
\* sentences, at least one and at most n.
C1_ExactCount ==
  Succeeded =>
    /\ Len(summary_sentences) = ClaimedCount(Len(text), summary_length)
    /\ Len(summary_sentences) >= 1
    /\ Len(summary_sentences) <= Len(text)

\* C1 (amended): a successful summary holds min(max(1, floor(n * f)), number
\* of scored sentences) sentences, at least one and at most n.
C1_CountCappedByScored ==
  Succeeded =>
    /\ Len(summary_sentences) =
         Min(ClaimedCount(Len(text), summary_length), Cardinality(Scorable(text)))
    /\ Len(summary_sentences) >= 1
    /\ Len(summary_sentences) <= Len(text)

C1_Witness ==
  /\ Succeeded
  /\ Cardinality(Scorable(text)) < ClaimedCount(Len(text), summary_length)
  /\ Len(summary_sentences) = Cardinality(Scorable(text))

\* C2: when there is a sentence and the word-frequency table is non-empty,
\* summarize_text returns a success with at least one selected sentence.
C2_SuccessWhenWordsSurvive ==
  (Returned /\ Len(text) >= 1 /\ DOMAIN word_frequencies # {}) =>
    (result.tuple /\ Len(summary_sentences) >= 1)

AllWhitespace(t) ==
  \A p \in Occurrences(t) : \A c \in 1..Len(TokenAt(t, p)) : TokenAt(t, p)[c] = " "
AllFiltered(t) == \A p \in Occurrences(t) : TokenAt(t, p) \in SkippedTokens
ExpectedOutcome(t) ==
  IF AllWhitespace(t) THEN "Error: No text to summarize"
  ELSE IF AllFiltered(t) THEN "Error: No meaningful words found in text"
  ELSE IF Scorable(t) = {} THEN "Error: Could not score sentences"
  ELSE ""

\* C3: the outcome is EmptyInput iff the text is empty after stripping; else
\* NoMeaningfulContent iff every token is filtered out; else ScoringFailed iff
\* no sentence is scored; else a success tuple; an error carries no summary.
C3_FourOutcomes ==
  Returned =>
    /\ result.error = ExpectedOutcome(text)
    /\ result.tuple <=> (ExpectedOutcome(text) = "")
    /\ ~result.tuple => (result.summary = <<>> /\ summary_sentences = <<>>)
    /\ result.tuple => (Len(summary_sentences) >= 1 /\ result.sentences = text)

C3_Witness == Failed("Error: Could not score sentences") /\ Len(text) >= 2

Normalized ==
  \/ pc \in {"normalized", "scored"}
  \/ Succeeded
  \/ Failed("Error: Could not score sentences")
RawCount(t, w) == Cardinality({ p \in Occurrences(t) : TokenAt(t, p) = w })

\* C5: after normalization every weight is in (0,1] and the key with the
\* highest raw count has weight exactly 1.0.
C5_WeightsNormalized ==
  Normalized =>
    /\ DOMAIN word_frequencies = KeysOf(text)
    /\ \A w \in DOMAIN word_frequencies :
         /\ 0 < word_frequencies[w].num
         /\ word_frequencies[w].num <= word_frequencies[w].den
         /\ (\A v \in DOMAIN word_frequencies : RawCount(text, v) <= RawCount(text, w))
              => word_frequencies[w] = [num |-> 1, den |-> 1]
    /\ \E w \in DOMAIN word_frequencies : word_frequencies[w] = [num |-> 1, den |-> 1]

C5_Witness ==
  /\ pc = "normalized"
  /\ \E w \in DOMAIN word_frequencies : word_frequencies[w].num < word_frequencies[w].den

\* C6: with fraction 1.0 the summary holds exactly the scored sentences, and
\* no sentence without a weighted word.
C6_FullLengthSelectsScored ==
  (Succeeded /\ summary_length = 10) =>
    /\ SelectedSet = ScoredSet
    /\ SelectedSet = Scorable(text)
    /\ Len(summary_sentences) = Cardinality(SelectedSet)

C6_Witness ==
  /\ Succeeded
  /\ summary_length = 10
  /\ Len(summary_sentences) >= 2
  /\ \E i \in 1..Len(text) : i \notin SelectedSet

Precedes(u, v) ==
  \/ RatLess(ScoreOf(v), ScoreOf(u))
  \/ (ScoreOf(u) = ScoreOf(v) /\ u < v)
SummaryStart(j) ==
  IF j = 1 THEN 0
  ELSE LET S[m \in 1..j] ==
             IF m = 1 THEN 0 ELSE S[m - 1] + Len(text[summary_sentences[m - 1]]) + 1
       IN  S[j]

\* C7: the selection is the k best by score, score-descending, an earlier
\* sentence first among equal scores; no unselected scored sentence beats or
\* ties-and-precedes a selected one; the summary is the selected texts joined
\* by one space, in that order.
C7_TopKStableOrder ==
  Succeeded =>
    /\ SelectedSet \subseteq ScoredSet
    /\ \A p \in 1..Len(summary_sentences), q \in 1..Len(summary_sentences) :
         p < q => Precedes(summary_sentences[p], summary_sentences[q])
    /\ \A u \in ScoredSet \ SelectedSet : \A v \in SelectedSet : Precedes(v, u)
    /\ \A i \in 1..Len(sentence_score), j \in 1..Len(sentence_score) :
         i < j => sentence_score[i].sent < sentence_score[j].sent
    /\ \A j \in 1..Len(summary_sentences) :
         LET at == SummaryStart(j)
             txt == text[summary_sentences[j]]
         IN  /\ SubSeq(result.summary, at + 1, at + Len(txt)) = txt
             /\ j > 1 => result.summary[at] = sp
             /\ j = Len(summary_sentences) => Len(result.summary) = at + Len(txt)

C7_Witness ==
  /\ Succeeded
  /\ Len(summary_sentences) >= 2
  /\ \E u \in ScoredSet \ SelectedSet : \E v \in SelectedSet :
       ScoreOf(u) = ScoreOf(v) /\ v < u
  /\ \E p \in 1..Len(summary_sentences), q \in 1..Len(summary_sentences) :
       p < q /\ summary_sentences[q] < summary_sentences[p]

SelectedCount(t, scores, f) == Len(NLargest(SelectLength(Len(t), f), scores))

\* C8: for a fixed text, a larger fraction never selects fewer sentences.
C8_Monotone ==
  Succeeded =>
    LET scores == ScoreSentences(text, Normalize(CountWords(text)))
    IN  \A f \in Fractions :
          /\ f <= summary_length => SelectedCount(text, scores, f) <= Len(summary_sentences)
          /\ f >= summary_length => SelectedCount(text, scores, f) >= Len(summary_sentences)

C8_Witness ==
  /\ Succeeded
  /\ \E f \in Fractions :
       /\ f < summary_length
       /\ SelectedCount(text, ScoreSentences(text, Normalize(CountWords(text))), f)
            < Len(summary_sentences)

SpecSkippedTokens == { w \in Tokens : SpecSkipped(w) }
ClaimedCountOf(t, w) ==
  IF w \in SpecSkippedTokens THEN 0 ELSE RawCount(t, w)

\* C9: after the counting pass, for every surface form s, count[s] is the
\* number of tokens with surface form s that are neither a stopword nor a
\* single punctuation character after lowercasing; skipped forms are no keys.
C9_CountsBySurfaceForm ==
  pc = "counted" =>
    \A w \in Tokens :
      IF ClaimedCountOf(text, w) = 0
      THEN w \notin DOMAIN word_frequencies
      ELSE w \in DOMAIN word_frequencies /\ word_frequencies[w] = ClaimedCountOf(text, w)

RECURSIVE SumWeights(_, _, _)
SumWeights(sentence, wf, keys) ==
  IF keys = {} THEN Rat(0, 1)
  ELSE LET w == CHOOSE x \in keys : TRUE
           n == Cardinality({ j \in 1..Len(sentence) : Lower(sentence[j]) = w })
       IN  RatAdd(Rat(n * wf[w].num, wf[w].den), SumWeights(sentence, wf, keys \ {w}))

\* C10: a sentence is a key of the score mapping iff it holds a token whose
\* lowercase form is a key of the weight table; its score is the sum of the
\* weights under those lowercase keys, one per occurrence; every score is > 0.
C10_ScoreIsSumOfWeights ==
  (pc = "scored" \/ Succeeded) =>
    /\ ScoredSet = Scorable(text)
    /\ Len(sentence_score) = Cardinality(ScoredSet)
    /\ \A i \in 1..Len(sentence_score) :
         /\ sentence_score[i].score =
              SumWeights(text[sentence_score[i].sent], word_frequencies, DOMAIN word_frequencies)
         /\ sentence_score[i].score.num > 0

C10_Witness ==
  /\ pc = "scored"
  /\ \E i \in 1..Len(text) : i \notin ScoredSet
  /\ \E i \in 1..Len(sentence_score) :
       /\ sentence_score[i].score.den > 1
       /\ \E j \in 1..Len(text[sentence_score[i].sent]) :
            Lower(text[sentence_score[i].sent][j]) \notin DOMAIN word_frequencies

UrlIsInvalid(u) ==
  \/ (u.pytube = None /\ u.watch = None /\ u.short = None)
  \/ (u.pytube = None /\ u.watch = "")
  \/ (u.pytube = None /\ u.watch = None /\ u.short = "")
VideoOf(u) ==
  IF u.pytube # None THEN u.pytube ELSE IF u.watch # None THEN u.watch ELSE u.short
HasNoTranscript(u) ==
  \/ ServiceRaises(VideoOf(u))
  \/ AllWhitespace(TranscriptService(VideoOf(u)))
ExpectedStr(u, f) ==
  IF UrlIsInvalid(u) THEN Message("Invalid URL")
  ELSE IF HasNoTranscript(u) THEN Message("No transcript available")
  ELSE LET t == TranscriptService(VideoOf(u))
       IN  IF ExpectedOutcome(t) # "" THEN Message(ExpectedOutcome(t))
           ELSE SummaryStr(SummarizeText(t, f).summary)

\* C4: the results list ends with one entry per URL in input order; an item
\* with an invalid URL, without a transcript or with a summarization error is
\* recorded as an error for that item only, and every other item is recorded
\* with its summary, whatever came before it.
C4_BatchIsolatesFailures ==
  /\ batch_pc = "loop" =>
       /\ Len(results) = batch_i - 1
       /\ \A j \in 1..Len(results) :
            results[j] = <<urls[j], ExpectedStr(urls[j], batch_length)>>
  /\ (batch_pc = "returned" /\ urls # <<>>) =>
       /\ Len(results) = Len(urls)
       /\ \A j \in 1..Len(urls) :
            /\ results[j] = <<urls[j], ExpectedStr(urls[j], batch_length)>>
            /\ ShownAsError(results[j][2]) <=>
                 (ExpectedStr(urls[j], batch_length).error # "")
            /\ ~ShownAsError(results[j][2]) => Len(results[j][2].summary) >= 1

C4_Witness ==
  /\ batch_pc = "returned"
  /\ Len(urls) = 3
  /\ ~ShownAsError(results[1][2])
  /\ results[2][2] = Message("No transcript available")
  /\ ~ShownAsError(results[3][2])

\* the four fields of a stored summary
FourFields == {"summary", "url", "word_count", "total_sentences"}

\* the URL that was typed at the prompt
UrlNamed(name) == CHOOSE u \in MenuUrls : u.name = name

\* what a successful single-video summarization of this URL at this length
\* leaves in the storage
ExpectedStorage(name, f) ==
  LET t == TranscriptService(VideoOf(UrlNamed(name)))
      summary == SummarizeText(t, f).summary
  IN  [summary |-> summary,
       url |-> name,
       word_count |-> Len(SelectSeq(summary, LAMBDA w : ~IsSpace(w))),
       total_sentences |-> Len(t)]

SingleSucceeded == <<"SUMMARY GENERATED SUCCESSFULLY!">>

\* the storage is empty or complete
C11_EmptyOrComplete ==
  Keys(last_summary_storage) = {} \/ Keys(last_summary_storage) = FourFields

\* a successful single-video summarization writes the four fields of its own
\* summary, and every other choice leaves the storage as it was
C11_OnlySuccessWrites ==
  IF cli_in'.choice = "1" /\ cli_out' = SingleSucceeded
  THEN last_summary_storage' = ExpectedStorage(cli_in'.url, cli_in'.length)
  ELSE last_summary_storage' = last_summary_storage

\* view_last_summary finds no summary exactly when the storage is empty
C11_ViewReports ==
  cli_in.choice = "3" =>
    (cli_out = <<"No previous summary found!">> <=> last_summary_storage = EmptyStorage)

\* C11: across any sequence of menu choices, last_summary_storage is either
\* empty or holds all four fields (summary, url, word_count, total_sentences)
\* of the most recent successful single-video summarization; batch
\* summarization, view-last-summary, settings, help, invalid choices and a
\* failed single-video attempt leave it unchanged, and view_last_summary
\* reports 'No previous summary found' until the first success.
C11_StorageWrittenOnlyOnSuccess ==
  /\ [](C11_EmptyOrComplete /\ C11_ViewReports)
  /\ [][C11_OnlySuccessWrites]_vars

\* a summary of one video is stored, and a later attempt on another video has
\* failed in summarize_text
C11_Witness ==
  /\ cli_pc = "menu"
  /\ Keys(last_summary_storage) = FourFields
  /\ cli_in.choice = "1"
  /\ cli_in.url # last_summary_storage["url"]
  /\ cli_out = <<"Error: No meaningful words found in text">>

====
